---------------------------- MODULE Spec2Model ----------------------------
(***************************************************************************)
(* A model of toxyl/math:                                                  *)
(*   - generate.go (listed in src/README.md from line 59): the generator   *)
(*     that scans a Go package, classifies its exported declarations and   *)
(*     emits core_functions.go, core_consts.go, core_vars.go and           *)
(*     core_types.go;                                                      *)
(*   - user_functions.go: the hand-written utilities Avg and Wrap.         *)
(*                                                                         *)
(* Text is a sequence of one-character strings, so that an identifier's   *)
(* first letter, fmt.Sprintf("arg%d", i) and strings.Join are computed as  *)
(* the code computes them.                                                 *)
(***************************************************************************)
EXTENDS Integers, Sequences, FiniteSets, TLC

VARIABLES
    \* ---- the generator's environment ----
    resolvable,   \* build.Import("math", "", 0) succeeds
    lib,          \* pkg.GoFiles: a sequence of files [parses, decls]
    disk,         \* the four output files, by emission order 1..4
    \* ---- one run of main() ----
    pc,           \* position in main()
    fileIdx,      \* index of the file of pkg.GoFiles being processed
    declIdx,      \* index of the declaration of f.Decls being processed
    funcs,        \* []FuncInfo
    consts,       \* []ConstInfo
    vars,         \* []VarInfo
    types,        \* []TypeInfo
    module,       \* the output module being emitted, 1..4
    err,          \* what made the run abort: "none", "resolution", "parse",
                  \* "write", "template"
    \* ---- history across runs ----
    runs,         \* number of runs started
    startDisk,    \* the disk as the current run found it
    prior,        \* the last successful run's output and what changed since
    \* ---- user_functions.go: one call of Avg ----
    avgN,         \* the instantiation of N: "int" or "float64"
    avgX,         \* the argument list x
    avgI,         \* loop index i (zero-based); Len(avgX) when the loop is over
    avgRes,       \* res, an exact dyadic rational [num, den]
    avgPc,        \* "loop", "done"
    avgOut,       \* the returned N(res), as a rational [num, den]
    \* ---- user_functions.go: one call of Wrap ----
    wrapSigned,   \* N is a signed integer type
    wrapVal,      \* val, min, max, rangeSize: values of N (Width bits)
    wrapMin,
    wrapMax,
    wrapRange,
    wrapArgs,     \* the arguments <<val, min, max>> the call was made with
    wrapPc,       \* "swap", "range", "mod", "neg", "ret", "done"
    wrapOut       \* the returned value

genVars  == <<resolvable, lib, disk, pc, fileIdx, declIdx, funcs, consts, vars,
              types, module, err, runs, startDisk, prior>>
avgVars  == <<avgN, avgX, avgI, avgRes, avgPc, avgOut>>
wrapVars == <<wrapSigned, wrapVal, wrapMin, wrapMax, wrapRange, wrapArgs,
              wrapPc, wrapOut>>
allVars  == <<genVars, avgVars, wrapVars>>

---------------------------------------------------------------------------
(* Text                                                                    *)

UpperLetters == {"A", "B", "C", "D", "E", "F", "G", "H", "I", "J", "K", "L", "M",
                 "N", "O", "P", "Q", "R", "S", "T", "U", "V", "W", "X", "Y", "Z"}

\* ast.Ident.IsExported: the name begins with an upper-case letter.
IsExported(name) == Len(name) > 0 /\ name[1] \in UpperLetters

DigitChar(d) == CASE d = 0 -> "0" [] d = 1 -> "1" [] d = 2 -> "2" [] d = 3 -> "3"
                  [] d = 4 -> "4" [] d = 5 -> "5" [] d = 6 -> "6" [] d = 7 -> "7"
                  [] d = 8 -> "8" [] d = 9 -> "9"

RECURSIVE Itoa(_)
\* The %d verb: the decimal digits of a non-negative int.
Itoa(i) == IF i < 10 THEN <<DigitChar(i)>>
           ELSE Itoa(i \div 10) \o <<DigitChar(i % 10)>>

\* fmt.Sprintf("arg%d", i)
SprintfArg(i) == <<"a", "r", "g">> \o Itoa(i)

RECURSIVE Join(_, _)
\* strings.Join(elems, sep)
Join(elems, sep) ==
    IF Len(elems) = 0 THEN <<>>
    ELSE IF Len(elems) = 1 THEN elems[1]
    ELSE elems[1] \o sep \o Join(Tail(elems), sep)

RECURSIVE Flatten(_)
\* append(list, more...) over a sequence of lists
Flatten(lists) == IF Len(lists) = 0 THEN <<>>
                  ELSE lists[1] \o Flatten(Tail(lists))

CommaSpace == <<",", " ">>
float64 == <<"f", "l", "o", "a", "t", "6", "4">>
int == <<"i", "n", "t">>

---------------------------------------------------------------------------
(* The scanned syntax trees (go/ast)                                       *)

\* A type expression: an *ast.Ident, or another node (here an *ast.StarExpr)
\* around an identifier.
Ident(name)    == [kind |-> "Ident", name |-> name]
StarExpr(name) == [kind |-> "StarExpr", name |-> name]

\* printer.Fprint of a type expression
PrintExpr(t) == CASE t.kind = "Ident" -> t.name
                  [] t.kind = "StarExpr" -> <<"*">> \o t.name

\* An *ast.Field: a list of names sharing one type.
Field(names, type) == [names |-> names, type |-> type]

\* An *ast.FieldList that may be nil.
NoFieldList    == [present |-> FALSE, list |-> <<>>]
FieldList(l)   == [present |-> TRUE, list |-> l]

\* An *ast.FuncDecl: Name, Recv != nil, Type.Params, Type.Results.
FuncDecl(name, recv, params, results) ==
    [node |-> "FuncDecl", name |-> name, recv |-> recv,
     params |-> params, results |-> results]

\* An *ast.ValueSpec (Names, Values as printed) and an *ast.TypeSpec.
ValueSpec(names, values) == [names |-> names, values |-> values]
TypeSpec(name, def)      == [name |-> name, def |-> def]

\* An *ast.GenDecl: Tok in "import", "const", "var", "type", and its Specs.
GenDecl(tok, specs) == [node |-> "GenDecl", tok |-> tok, specs |-> specs]

---------------------------------------------------------------------------
(* The classifier: main(), case *ast.FuncDecl                              *)

\* Mutant of FieldNames: the synthesized name counts from one.
FieldNamesOneBased(field, i) ==
    IF Len(field.names) = 0 THEN <<SprintfArg(i + 1)>> ELSE field.names

\* The names of the i-th field of Params.List (i zero-based, as in the
\* code's range loop): the declared names, or arg<i> when there is none.
FieldNames(field, i) ==
    IF Len(field.names) = 0 THEN <<SprintfArg(i)>> ELSE field.names

\* ident, ok := field.Type.(*ast.Ident); ok && ident.Name == "float64"
IsFloat64Ident(t) == t.kind = "Ident" /\ t.name = float64

\* isGeneric after the parameter loop.
ParamsGeneric(params) ==
    \A j \in 1..Len(params) : IsFloat64Ident(params[j].type)

\* genericParams: per field, its names joined, then " N".
GenericParamList(params) ==
    [j \in 1..Len(params) |->
        Join(FieldNames(params[j], j - 1), CommaSpace) \o <<" ", "N">>]

\* castArgs: per name, "float64(" + n + ")".
CastOf(n) == float64 \o <<"(">> \o n \o <<")">>

CastArgList(params) ==
    Flatten([j \in 1..Len(params) |->
        [k \in 1..Len(FieldNames(params[j], j - 1)) |->
            CastOf(FieldNames(params[j], j - 1)[k])]])

\* nonGenericParams: per field, its names joined, a space, the printed type.
NonGenericParamList(params) ==
    [j \in 1..Len(params) |->
        Join(FieldNames(params[j], j - 1), CommaSpace) \o <<" ">>
            \o PrintExpr(params[j].type)]

\* Mutant of ResultsGeneric: the names of the one result field are not counted.
ResultsGenericAnyNames(results) ==
    IF results.present /\ Len(results.list) = 1
    THEN IsFloat64Ident(results.list[1].type)
    ELSE FALSE

\* The result clause's verdict: exactly one result field, at most one name
\* in it, and its type the identifier float64.
ResultsGeneric(results) ==
    IF results.present /\ Len(results.list) = 1
    THEN /\ ~(Len(results.list[1].names) > 1)
         /\ IsFloat64Ident(results.list[1].type)
    ELSE FALSE

\* retType
ReturnTypeOf(results) ==
    IF results.present /\ Len(results.list) = 1
    THEN PrintExpr(results.list[1].type)
    ELSE <<>>

\* printer.Fprint of a field as it is declared.
PrintField(f) ==
    IF Len(f.names) = 0 THEN PrintExpr(f.type)
    ELSE Join(f.names, CommaSpace) \o <<" ">> \o PrintExpr(f.type)

PrintFields(list) == Join([j \in 1..Len(list) |-> PrintField(list[j])], CommaSpace)

\* printer.Fprint(&sigBuf, fset, d.Type)
PrintFuncType(params, results) ==
    <<"f", "u", "n", "c", "(">> \o PrintFields(params) \o <<")">> \o
    (IF ~results.present \/ Len(results.list) = 0 THEN <<>>
     ELSE IF Len(results.list) = 1 /\ Len(results.list[1].names) = 0
          THEN <<" ">> \o PrintExpr(results.list[1].type)
     ELSE <<" ", "(">> \o PrintFields(results.list) \o <<")">>)

\* fi := FuncInfo{...}
FuncInfoOf(d) ==
    [Name          |-> d.name,
     Params        |-> Join(NonGenericParamList(d.params), CommaSpace),
     GenericParams |-> Join(GenericParamList(d.params), CommaSpace),
     CastArgs      |-> Join(CastArgList(d.params), CommaSpace),
     ReturnType    |-> ReturnTypeOf(d.results),
     IsGeneric     |-> ParamsGeneric(d.params) /\ ResultsGeneric(d.results),
     OriginalSig   |-> PrintFuncType(d.params, d.results)]

\* Mutant of FuncRetained: the receiver is not looked at.
FuncRetainedAnyReceiver(d) == IsExported(d.name)

\* if d.Name.IsExported() && d.Recv == nil
FuncRetained(d) == IsExported(d.name) /\ ~d.recv

\* The records one FuncDecl adds to funcs.
FuncRecords(d) == IF FuncRetained(d) THEN <<FuncInfoOf(d)>> ELSE <<>>

(* main(), case *ast.GenDecl                                               *)

\* if i < len(vspec.Values) { printer.Fprint(&valueBuf, fset, vspec.Values[i]) }
ValueText(vspec, i) == IF i <= Len(vspec.values) THEN vspec.values[i] ELSE <<>>

\* if name.IsExported()
ValueRetained(name) == IsExported(name)

RECURSIVE ValueSpecRecords(_, _)
\* The records one ValueSpec adds to consts or vars, from its i-th name on.
ValueSpecRecords(vspec, i) ==
    IF i > Len(vspec.names) THEN <<>>
    ELSE (IF ValueRetained(vspec.names[i])
          THEN <<[Name |-> vspec.names[i], Value |-> ValueText(vspec, i)]>>
          ELSE <<>>) \o ValueSpecRecords(vspec, i + 1)

\* The records a const or var GenDecl adds.
ValueRecords(d) ==
    Flatten([j \in 1..Len(d.specs) |-> ValueSpecRecords(d.specs[j], 1)])

\* printer.Fprint(&declBuf, fset, d): the declaration d as a whole, that is
\* the keyword and every spec of the group.
PrintGenDecl(d) ==
    [tok |-> d.tok, specs |-> [j \in 1..Len(d.specs) |->
                                  <<d.specs[j].name, d.specs[j].def>>]]

\* if tspec.Name.IsExported()
TypeRetained(tspec) == IsExported(tspec.name)

\* The records a type GenDecl adds: one per exported spec, each holding the
\* printed GenDecl d.
TypeRecords(d) ==
    Flatten([j \in 1..Len(d.specs) |->
        IF TypeRetained(d.specs[j])
        THEN <<[Name |-> d.specs[j].name, Decl |-> PrintGenDecl(d)]>>
        ELSE <<>>])

---------------------------------------------------------------------------
(* The emitter: the four templates and the output files                    *)

\* The output files in the order main() emits them:
\* core_functions.go, core_consts.go, core_vars.go, core_types.go.
Modules == 1..4

\* A file is absent, or exists with a content: the sequence of chunks
\* written to it.  A chunk is a template's literal text or one {{range}}
\* element with the fields the template substitutes.
Absent == [exists |-> FALSE, content |-> <<>>]

\* Mutant of Created: the file is opened without truncation.
CreatedKeeping(file) == [exists |-> TRUE, content |-> file.content]

\* os.Create: the file exists afterwards and is empty (O_TRUNC).
Created(file) == [exists |-> TRUE, content |-> <<>>]

\* funcTmplText, one {{range .}} element: the wrapper with .Name,
\* .GenericParams and .CastArgs when .IsGeneric, else the alias with .Name.
FuncEntry(fi) ==
    IF fi.IsGeneric
    THEN <<"wrapper", fi.Name, fi.GenericParams, fi.CastArgs>>
    ELSE <<"alias", fi.Name>>

\* constTmplText, varTmplText: "\t{{.Name}} = math.{{.Name}}\n"
ConstEntry(ci) == <<"const", ci.Name>>
VarEntry(vi)   == <<"var", vi.Name>>

\* typeTmplText: "{{.Decl}}"
TypeEntry(ti)  == <<"type", ti.Decl>>

\* The text before and after the {{range}} of module k: the header, the
\* import and what closes the file.
Prologue(k) == <<"lit", "header", k>>
Epilogue(k) == <<"lit", "end", k>>

\* tmpl.Execute(file, data): the chunks module k's template writes for the
\* collection data.
Rendered(k, data) ==
    <<Prologue(k)>> \o
    [j \in 1..Len(data) |->
        CASE k = 1 -> FuncEntry(data[j])
          [] k = 2 -> ConstEntry(data[j])
          [] k = 3 -> VarEntry(data[j])
          [] k = 4 -> TypeEntry(data[j])] \o
    <<Epilogue(k)>>

\* Mutant of Written: the chunks stay in a buffer that is never flushed.
WrittenNowhere(file, chunks) == [exists |-> TRUE, content |-> file.content]

\* A write of chunks to an open file: appended after what it holds.
Written(file, chunks) == [exists |-> TRUE, content |-> file.content \o chunks]

---------------------------------------------------------------------------
(* Bounds and the scanned libraries                                        *)

MaxFiles == 2    \* most files in pkg.GoFiles
MaxDecls == 3    \* most declarations in the library, over all its files
MaxRuns  == 2    \* most runs of the generator

ch(c) == <<c>>
F64 == Ident(float64)
OneFloat == FieldList(<<Field(<<>>, F64)>>)

\* The declarations libraries are built from.
DeclPool == <<
    \* func S(x, y float64) float64
    FuncDecl(ch("S"), FALSE, <<Field(<<ch("x"), ch("y")>>, F64)>>, OneFloat),
    \* func F(f float64) (float64, int)
    FuncDecl(ch("F"), FALSE, <<Field(<<ch("f")>>, F64)>>,
             FieldList(<<Field(<<>>, F64), Field(<<>>, Ident(int))>>)),
    \* func P(float64, float64) float64
    FuncDecl(ch("P"), FALSE, <<Field(<<>>, F64), Field(<<>>, F64)>>, OneFloat),
    \* func s(x float64) float64
    FuncDecl(ch("s"), FALSE, <<Field(<<ch("x")>>, F64)>>, OneFloat),
    \* func (r T) M(x float64) float64
    FuncDecl(ch("M"), TRUE, <<Field(<<ch("x")>>, F64)>>, OneFloat),
    \* const ( C = 3; c = 2; D, d = 1, 2; E )
    GenDecl("const", <<ValueSpec(<<ch("C")>>, <<ch("3")>>),
                       ValueSpec(<<ch("c")>>, <<ch("2")>>),
                       ValueSpec(<<ch("D"), ch("d")>>, <<ch("1"), ch("2")>>),
                       ValueSpec(<<ch("E")>>, <<>>)>>),
    \* var V, v = 1, 2
    GenDecl("var", <<ValueSpec(<<ch("V"), ch("v")>>, <<ch("1"), ch("2")>>)>>),
    \* type ( U int; u int; W int )
    GenDecl("type", <<TypeSpec(ch("U"), int), TypeSpec(ch("u"), int),
                      TypeSpec(ch("W"), int)>>)
>>

\* A file parser.ParseFile rejects.
BadFile == [parses |-> FALSE, decls |-> <<>>]
GoFile(decls) == [parses |-> TRUE, decls |-> decls]

RECURSIVE DeclChoices(_, _)
\* The choices of at most n declarations of the pool, from index from on, in
\* the pool's order: a package declares a name once.
DeclChoices(from, n) ==
    IF n = 0 THEN {<<>>}
    ELSE {<<>>} \cup
         UNION {{<<DeclPool[i]>> \o rest : rest \in DeclChoices(i + 1, n - 1)}
                : i \in from..Len(DeclPool)}

Range(seq) == {seq[j] : j \in 1..Len(seq)}

RECURSIVE FilesOf(_, _)
\* The ways to lay the declarations ds out over at most k files, each with a
\* declaration at least, among files that do not parse.
FilesOf(k, ds) ==
    IF k = 0 THEN (IF Len(ds) = 0 THEN {<<>>} ELSE {})
    ELSE (IF Len(ds) = 0 THEN {<<>>} ELSE {})
         \cup {<<BadFile>> \o rest : rest \in FilesOf(k - 1, ds)}
         \cup UNION {{<<GoFile(SubSeq(ds, 1, c))>> \o rest
                        : rest \in FilesOf(k - 1, SubSeq(ds, c + 1, Len(ds)))}
                     : c \in 1..Len(ds)}

\* The libraries of at most MaxFiles files with at most MaxDecls
\* declarations in all.
Libraries == UNION {FilesOf(MaxFiles, ds) : ds \in DeclChoices(1, MaxDecls)}

\* What an output file may hold before the first run: an older output, or
\* the beginning of one that an aborted run left.
Stale == [exists |-> TRUE, content |-> <<<<"lit", "stale", 0>>>>]
Torn(k) == [exists |-> TRUE, content |-> <<Prologue(k)>>]

\* The disks the first run may find: no output file, four older outputs, or
\* what a run aborted while writing the second module left.
InitialDisks == {[k \in Modules |-> Absent],
                 [k \in Modules |-> Stale],
                 [k \in Modules |-> IF k = 1 THEN Stale
                                    ELSE IF k = 2 THEN Torn(k) ELSE Absent]}

---------------------------------------------------------------------------
(* main()                                                                  *)

\* The state of the utilities' variables while the generator is modelled.
AvgIdle  == /\ avgN = "int" /\ avgX = <<>> /\ avgI = 0
            /\ avgRes = [num |-> 0, den |-> 1] /\ avgPc = "idle"
            /\ avgOut = [num |-> 0, den |-> 1]
WrapIdle == /\ wrapSigned = FALSE /\ wrapVal = 0 /\ wrapMin = 0 /\ wrapMax = 0
            /\ wrapRange = 0 /\ wrapArgs = <<0, 0, 0>> /\ wrapPc = "idle"
            /\ wrapOut = 0

\* A fresh process at the top of main(): var funcs, consts, vars, types.
FreshRun == /\ pc = "import" /\ fileIdx = 0 /\ declIdx = 0
            /\ funcs = <<>> /\ consts = <<>> /\ vars = <<>> /\ types = <<>>
            /\ module = 0 /\ err = "none"

Init == /\ resolvable \in BOOLEAN
        /\ lib \in Libraries
        /\ disk \in InitialDisks
        /\ FreshRun
        /\ runs = 1 /\ startDisk = disk /\ prior = [kind |-> "none"]
        /\ AvgIdle /\ WrapIdle

\* The next run's process at the top of main().
Restart == /\ pc' = "import" /\ fileIdx' = 0 /\ declIdx' = 0
           /\ funcs' = <<>> /\ consts' = <<>> /\ vars' = <<>> /\ types' = <<>>
           /\ module' = 0 /\ err' = "none"

\* log.Fatalf: the process exits where it stands.
Fatal(why) == pc' = "fatal" /\ err' = why

\* pkg, err := build.Import("math", "", 0)
Import ==
    /\ pc = "import"
    /\ IF resolvable
       THEN pc' = "file" /\ fileIdx' = 1 /\ err' = err
       ELSE Fatal("resolution") /\ fileIdx' = fileIdx
    /\ UNCHANGED <<resolvable, lib, disk, declIdx, funcs, consts, vars, types,
                   module, runs, startDisk, prior,
                   avgVars, wrapVars>>

\* Mutant of ParseFails: the parser's error is dropped.
ParseErrorIgnored(file) == FALSE

\* err != nil after parser.ParseFile
ParseFails(file) == ~file.parses

\* for _, file := range pkg.GoFiles { f, err := parser.ParseFile(...) }, and
\* after the loop the first os.Create.
ParseFile ==
    /\ pc = "file"
    /\ IF fileIdx > Len(lib)
       THEN pc' = "create" /\ module' = 1 /\ err' = err /\ declIdx' = declIdx
       ELSE IF ParseFails(lib[fileIdx])
       THEN Fatal("parse") /\ module' = module /\ declIdx' = declIdx
       ELSE pc' = "decl" /\ declIdx' = 1 /\ module' = module /\ err' = err
    /\ UNCHANGED <<resolvable, lib, disk, fileIdx, funcs, consts, vars, types,
                   runs, startDisk, prior,
                   avgVars, wrapVars>>

\* Mutant of AppendFunc: isGeneric is declared outside the loop and never set
\* back to true, so a function after a non-generic one is not generic.
AppendFuncSticky(fs, d) ==
    IF ~FuncRetained(d) THEN fs
    ELSE fs \o <<[FuncInfoOf(d) EXCEPT !.IsGeneric =
                      @ /\ (Len(fs) = 0 \/ fs[Len(fs)].IsGeneric)]>>

\* funcs = append(funcs, fi) for a retained FuncDecl d.
AppendFunc(fs, d) == fs \o FuncRecords(d)

\* for _, decl := range f.Decls { switch d := decl.(type) {...} }
WalkDecl ==
    /\ pc = "decl"
    /\ IF declIdx > Len(lib[fileIdx].decls)
       THEN /\ pc' = "file" /\ fileIdx' = fileIdx + 1 /\ declIdx' = declIdx
            /\ UNCHANGED <<funcs, consts, vars, types>>
       ELSE LET d == lib[fileIdx].decls[declIdx] IN
            /\ pc' = pc /\ fileIdx' = fileIdx /\ declIdx' = declIdx + 1
            /\ funcs'  = IF d.node = "FuncDecl" THEN AppendFunc(funcs, d) ELSE funcs
            /\ consts' = IF d.node = "GenDecl" /\ d.tok = "const"
                         THEN consts \o ValueRecords(d) ELSE consts
            /\ vars'   = IF d.node = "GenDecl" /\ d.tok = "var"
                         THEN vars \o ValueRecords(d) ELSE vars
            /\ types'  = IF d.node = "GenDecl" /\ d.tok = "type"
                         THEN types \o TypeRecords(d) ELSE types
    /\ UNCHANGED <<resolvable, lib, disk, module, err, runs, startDisk, prior,
                   avgVars, wrapVars>>

\* The collection module k's template is executed on.
Data(k) == CASE k = 1 -> funcs [] k = 2 -> consts [] k = 3 -> vars [] k = 4 -> types

\* funcFile, err := os.Create("core_functions.go"), and the like: the file
\* is created or truncated, or the call fails and the run aborts.
CreateFile ==
    /\ pc = "create"
    /\ \E ok \in BOOLEAN :
         IF ok
         THEN /\ disk' = [disk EXCEPT ![module] = Created(@)]
              /\ pc' = "template" /\ err' = err
         ELSE Fatal("write") /\ disk' = disk
    /\ UNCHANGED <<resolvable, lib, fileIdx, declIdx, funcs, consts, vars, types,
                   module, runs, startDisk, prior,
                   avgVars, wrapVars>>

\* template.Must(template.New(...).Parse(text)): panics on a malformed text.
ParseTemplate ==
    /\ pc = "template"
    /\ \E ok \in BOOLEAN :
         IF ok THEN pc' = "execute" /\ err' = err ELSE Fatal("template")
    /\ UNCHANGED <<resolvable, lib, disk, fileIdx, declIdx, funcs, consts, vars,
                   types, module, runs, startDisk, prior,
                   avgVars, wrapVars>>

\* tmpl.Execute(file, data): writes the rendering to the file as it goes;
\* when it fails the first n chunks have been written and the run aborts.
Execute ==
    /\ pc = "execute"
    /\ LET out == Rendered(module, Data(module)) IN
       \E n \in 0..Len(out) :
         /\ disk' = [disk EXCEPT ![module] = Written(@, SubSeq(out, 1, n))]
         /\ IF n < Len(out)
            THEN Fatal("template") /\ module' = module
            ELSE IF module < 4
            THEN pc' = "create" /\ module' = module + 1 /\ err' = err
            ELSE pc' = "done" /\ module' = module /\ err' = err
    /\ UNCHANGED <<resolvable, lib, fileIdx, declIdx, funcs, consts, vars, types,
                   runs, startDisk, prior,
                   avgVars, wrapVars>>

(* The environment between runs                                            *)

\* The generator has succeeded and is run again on the library as it is.
\* (An aborted run ends the behaviour; what it may leave behind is among the
\* initial disks.)
Rerun ==
    /\ pc = "done"
    /\ runs < MaxRuns
    /\ runs' = runs + 1
    /\ startDisk' = disk
    /\ prior' = [kind |-> "same", disk |-> disk]
    /\ Restart
    /\ UNCHANGED <<resolvable, lib, disk,
                   avgVars, wrapVars>>

\* seq without its j-th element
RemoveAt(seq, j) == SubSeq(seq, 1, j - 1) \o SubSeq(seq, j + 1, Len(seq))

\* One exported function is removed from the library, and the generator is
\* run again.
RemoveFunction ==
    /\ pc = "done"
    /\ runs < MaxRuns
    /\ \E f \in 1..Len(lib) : \E j \in 1..Len(lib[f].decls) :
         LET d == lib[f].decls[j] IN
         /\ d.node = "FuncDecl" /\ IsExported(d.name) /\ ~d.recv
         /\ lib' = [lib EXCEPT ![f].decls = RemoveAt(@, j)]
         /\ prior' = [kind |-> "removed", name |-> d.name, disk |-> disk]
    /\ runs' = runs + 1
    /\ startDisk' = disk
    /\ Restart
    /\ UNCHANGED <<resolvable, disk,
                   avgVars, wrapVars>>

Next == \/ Import \/ ParseFile \/ WalkDecl
        \/ CreateFile \/ ParseTemplate \/ Execute
        \/ Rerun \/ RemoveFunction

Spec == Init /\ [][Next]_allVars

---------------------------------------------------------------------------
(* Properties of the generator                                             *)

\* The declarations of the library, in scan order.
AllDecls(l) == Flatten([f \in 1..Len(l) |-> l[f].decls])

\* The declarations scanned so far in this run.
ScannedDecls ==
    Flatten([f \in 1..Len(lib) |->
        IF f < fileIdx THEN lib[f].decls
        ELSE IF f = fileIdx /\ pc = "decl"
             THEN SubSeq(lib[f].decls, 1, declIdx - 1)
        ELSE <<>>])

NoDuplicates(seq) == \A i, j \in 1..Len(seq) : seq[i] = seq[j] => i = j

\* The four collections a scan of library l builds, as one pass over all
\* its declarations.
CollectionOf(k, l) ==
    LET ds == AllDecls(l) IN
    Flatten([j \in 1..Len(ds) |->
        CASE k = 1 -> IF ds[j].node = "FuncDecl" THEN FuncRecords(ds[j]) ELSE <<>>
          [] k = 2 -> IF ds[j].node = "GenDecl" /\ ds[j].tok = "const"
                      THEN ValueRecords(ds[j]) ELSE <<>>
          [] k = 3 -> IF ds[j].node = "GenDecl" /\ ds[j].tok = "var"
                      THEN ValueRecords(ds[j]) ELSE <<>>
          [] k = 4 -> IF ds[j].node = "GenDecl" /\ ds[j].tok = "type"
                      THEN TypeRecords(ds[j]) ELSE <<>>])

\* The four files a successful run on library l leaves.
OutputOf(l) ==
    [k \in Modules |-> [exists |-> TRUE, content |-> Rendered(k, CollectionOf(k, l))]]

\* C3: a second run in succession on the unchanged library leaves the four
\* output files exactly as the first run wrote them, and what a successful
\* run leaves is determined by the library alone, whatever the files held.
C3_Idempotent ==
    pc = "done" =>
        /\ prior.kind = "same" => disk = prior.disk
        /\ disk = OutputOf(lib)

C3_Witness ==
    /\ pc = "done" /\ prior.kind = "same"
    /\ Len(funcs) > 0 /\ Len(consts) > 0
    /\ disk # startDisk \/ runs = 2

\* C4: while the library is being resolved and scanned, and after an abort
\* on a resolution or parse failure, the four output files are as the run
\* found them; a library with a file that does not parse never gets an
\* output file created, truncated or written.
C4_NoOutputBeforeScan ==
    /\ pc \in {"import", "file", "decl"} => disk = startDisk
    /\ (pc = "fatal" /\ err \in {"resolution", "parse"}) => disk = startDisk
    /\ (~resolvable \/ \E f \in 1..Len(lib) : ~lib[f].parses) => disk = startDisk
    /\ disk # startDisk => fileIdx = Len(lib) + 1

\* A parse failure in the second file, after the first one was scanned into
\* records.
C4_Witness ==
    /\ pc = "fatal" /\ err = "parse" /\ fileIdx = 2
    /\ Len(funcs) > 0
    /\ disk = startDisk

\* Module j's file holds its complete new rendering.
Complete(j) == disk[j] = [exists |-> TRUE, content |-> Rendered(j, Data(j))]

\* s is a proper prefix of t
ProperPrefix(s, t) == Len(s) < Len(t) /\ s = SubSeq(t, 1, Len(s))

Emitting == \/ pc \in {"create", "template", "execute"}
            \/ pc = "fatal" /\ err \in {"write", "template"}

\* C5 as stated: on a template failure on module k the file of module k is
\* neither created nor modified, the earlier modules are complete and the
\* later ones untouched.
C5_FailedModuleUntouched ==
    (pc = "fatal" /\ err = "template") =>
        /\ disk[module] = startDisk[module]
        /\ \A j \in Modules : j < module => Complete(j)
        /\ \A j \in Modules : j > module => disk[j] = startDisk[j]

\* C5 amended: the modules are emitted in the order 1..4; on a template
\* failure on module k the file of module k has already been created or
\* truncated and holds a proper prefix of its new rendering (nothing of
\* what it held before), the earlier modules are complete and the later
\* ones untouched.
C5_FailedModuleTruncated ==
    /\ Emitting =>
        /\ \A j \in Modules : j < module => Complete(j)
        /\ \A j \in Modules : j > module => disk[j] = startDisk[j]
    /\ (pc = "fatal" /\ err = "template") =>
        /\ disk[module].exists
        /\ ProperPrefix(disk[module].content, Rendered(module, Data(module)))

\* A template failure on the third module, whose file held an older output.
C5_Witness ==
    /\ pc = "fatal" /\ err = "template" /\ module = 3
    /\ startDisk[3] = Stale
    /\ Len(vars) > 0

\* C6: at every point of the scan each function record names an exported
\* function declared without a receiver, each constant, variable and type
\* record names an exported identifier of a scanned declaration of its
\* kind, and no unexported function and no method has a record.
C6_OnlyExported ==
    LET ds == ScannedDecls
        SpecNames(tok) ==
            UNION {UNION {IF tok = "type" THEN {ds[j].specs[n].name}
                          ELSE Range(ds[j].specs[n].names)
                          : n \in 1..Len(ds[j].specs)}
                   : j \in {i \in 1..Len(ds) :
                              ds[i].node = "GenDecl" /\ ds[i].tok = tok}}
        FuncIdx == {i \in 1..Len(ds) : ds[i].node = "FuncDecl"}
    IN
    /\ \A i \in 1..Len(funcs) :
         /\ IsExported(funcs[i].Name)
         /\ \E j \in FuncIdx : ds[j].name = funcs[i].Name /\ ~ds[j].recv
    /\ \A j \in FuncIdx :
         (ds[j].recv \/ ~IsExported(ds[j].name)) =>
             ~\E i \in 1..Len(funcs) : funcs[i].Name = ds[j].name
    /\ \A i \in 1..Len(consts) :
         IsExported(consts[i].Name) /\ consts[i].Name \in SpecNames("const")
    /\ \A i \in 1..Len(vars) :
         IsExported(vars[i].Name) /\ vars[i].Name \in SpecNames("var")
    /\ \A i \in 1..Len(types) :
         IsExported(types[i].Name) /\ types[i].Name \in SpecNames("type")

\* A scan that met a method, and grouped declarations mixing exported and
\* unexported names.
C6_Witness ==
    /\ pc = "create"
    /\ \E j \in 1..Len(ScannedDecls) :
         ScannedDecls[j].node = "FuncDecl" /\ ScannedDecls[j].recv
    /\ Len(consts) = 3
    /\ Len(funcs) = 0

\* A chunk of core_functions.go is the entry of the function called name.
IsEntryOf(chunk, name) == chunk[1] \in {"wrapper", "alias"} /\ chunk[2] = name

\* C7: after one exported function is removed and the generator is run
\* again, the functions module is what it was with that function's entry
\* removed, the other entries and their order as they were, and the three
\* other modules are what they were.
C7_RemovalFrame ==
    (pc = "done" /\ prior.kind = "removed") =>
        /\ disk[1].content =
             SelectSeq(prior.disk[1].content,
                       LAMBDA c : ~IsEntryOf(c, prior.name))
        /\ Len(disk[1].content) = Len(prior.disk[1].content) - 1
        /\ \A k \in 2..4 : disk[k] = prior.disk[k]

\* The first of three functions was removed; two entries remain.
C7_Witness ==
    /\ pc = "done" /\ prior.kind = "removed"
    /\ Len(funcs) = 2
    /\ IsEntryOf(prior.disk[1].content[2], prior.name)

\* The type names core_types.go declares, in order.
DeclaredTypes(file) ==
    Flatten([j \in 1..Len(file.content) |->
        IF file.content[j][1] = "type"
        THEN [n \in 1..Len(file.content[j][2].specs) |->
                 file.content[j][2].specs[n][1]]
        ELSE <<>>])

\* C10: the types collection holds one record per exported type of the
\* library, and the emitted types module declares no type name more than
\* once and no unexported type.
C10_TypesDeclaredOnce ==
    pc = "done" =>
        /\ NoDuplicates([i \in 1..Len(types) |-> types[i].Name])
        /\ NoDuplicates(DeclaredTypes(disk[4]))
        /\ \A i \in 1..Len(DeclaredTypes(disk[4])) :
             IsExported(DeclaredTypes(disk[4])[i])

---------------------------------------------------------------------------
(* The classifier on every signature within bounds                         *)

MaxParams  == 3   \* most parameters of a function, over all its fields
MaxResults == 2   \* most result values of a function, over all its fields

\* The types a field may declare: the identifiers float64 and int, and the
\* pointer *float64, which is no identifier.
TypeExprs == {Ident(float64), Ident(int), StarExpr(float64)}

\* The n-th name of a list whose names begin with letter.
NameAt(letter, n) == <<letter>> \o Itoa(n)

RECURSIVE UnnamedFields(_)
\* The lists of at most n fields without a name.
UnnamedFields(n) ==
    IF n = 0 THEN {<<>>}
    ELSE {<<>>} \cup {<<Field(<<>>, t)>> \o rest :
                        t \in TypeExprs, rest \in UnnamedFields(n - 1)}

RECURSIVE NamedFields(_, _, _)
\* The lists of fields with names, at most n names in all, the names
\* numbered from first on.
NamedFields(letter, n, first) ==
    IF n = 0 THEN {<<>>}
    ELSE {<<>>} \cup UNION {
            {<<Field([k \in 1..c |-> NameAt(letter, first + k - 1)], t)>> \o rest :
                t \in TypeExprs, rest \in NamedFields(letter, n - c, first + c)}
            : c \in 1..n}

\* The field lists the parser produces, of at most n values: every field
\* without a name, or every field with names.
FieldLists(letter, n) == UnnamedFields(n) \cup NamedFields(letter, n, 0)

\* The exported, receiver-free functions G with such a signature.
Signatures ==
    {FuncDecl(ch("G"), FALSE, ps, rs) :
        ps \in FieldLists("p", MaxParams),
        rs \in {NoFieldList} \cup
               {FieldList(l) : l \in FieldLists("r", MaxResults)}}

InitClassify ==
    /\ resolvable = TRUE
    /\ lib \in {<<GoFile(<<d>>)>> : d \in Signatures}
    /\ disk = [k \in Modules |-> Absent]
    /\ FreshRun
    /\ runs = 1 /\ startDisk = disk /\ prior = [kind |-> "none"]
    /\ AvgIdle /\ WrapIdle

ScanNext == Import \/ ParseFile \/ WalkDecl

SpecClassify == InitClassify /\ [][ScanNext]_allVars

\* The number of values a result list declares: one per name, one for a
\* field without a name.
RECURSIVE NumValues(_)
NumValues(list) ==
    IF Len(list) = 0 THEN 0
    ELSE (IF Len(list[1].names) = 0 THEN 1 ELSE Len(list[1].names))
         + NumValues(Tail(list))

\* The scanned declaration a function record was built from.
DeclOf(fi) == CHOOSE d \in Range(AllDecls(lib)) : d.node = "FuncDecl" /\ d.name = fi.Name

\* C1: a function record is generic if and only if every parameter's type is
\* the identifier float64 and the function returns exactly one value, whose
\* type is the identifier float64.
C1_GenericIff ==
    \A i \in 1..Len(funcs) :
        LET d == DeclOf(funcs[i]) IN
        funcs[i].IsGeneric <=>
            /\ \A j \in 1..Len(d.params) :
                 d.params[j].type = Ident(float64)
            /\ d.results.present
            /\ NumValues(d.results.list) = 1
            /\ \A j \in 1..Len(d.results.list) :
                 d.results.list[j].type = Ident(float64)

\* A function of float64 parameters with the results (a, b float64): one
\* result field, two values.
C1_Witness ==
    /\ Len(funcs) = 1
    /\ ~funcs[1].IsGeneric
    /\ LET d == DeclOf(funcs[1]) IN
       /\ Len(d.params) = 2
       /\ \A j \in 1..Len(d.params) : d.params[j].type = Ident(float64)
       /\ Len(d.results.list) = 1
       /\ Len(d.results.list[1].names) = 2
       /\ d.results.list[1].type = Ident(float64)

\* C2: when the parameters are declared without names, the parameter at
\* zero-based position n is called arg<n> in Params, GenericParams and
\* CastArgs, and the names of one function are pairwise distinct.
C2_PositionalNames ==
    \A i \in 1..Len(funcs) :
        LET d == DeclOf(funcs[i])
            arg(n) == <<"a", "r", "g">> \o Itoa(n)
            m == Len(d.params)
        IN
        (m > 0 /\ \A j \in 1..m : Len(d.params[j].names) = 0) =>
            /\ funcs[i].Params =
                 Join([j \in 1..m |-> arg(j - 1) \o <<" ">> \o PrintExpr(d.params[j].type)],
                      CommaSpace)
            /\ funcs[i].GenericParams =
                 Join([j \in 1..m |-> arg(j - 1) \o <<" ", "N">>], CommaSpace)
            /\ funcs[i].CastArgs =
                 Join([j \in 1..m |-> float64 \o <<"(">> \o arg(j - 1) \o <<")">>],
                      CommaSpace)
            /\ \A j, k \in 1..m : arg(j - 1) = arg(k - 1) => j = k

\* A function of two parameters without names has been classified.
C2_Witness ==
    /\ Len(funcs) = 1
    /\ LET d == DeclOf(funcs[1]) IN
       /\ Len(d.params) = 2
       /\ \A j \in 1..2 : Len(d.params[j].names) = 0
    /\ funcs[1].CastArgs =
         float64 \o <<"(", "a", "r", "g", "0", ")", ",", " ">>
         \o float64 \o <<"(", "a", "r", "g", "1", ")">>

---------------------------------------------------------------------------
(* user_functions.go: Avg                                                  *)

\* The state of the generator's variables while a utility is modelled.
GenIdle ==
    /\ resolvable = TRUE /\ lib = <<>> /\ disk = [k \in Modules |-> Absent]
    /\ pc = "idle" /\ fileIdx = 0 /\ declIdx = 0
    /\ funcs = <<>> /\ consts = <<>> /\ vars = <<>> /\ types = <<>>
    /\ module = 0 /\ err = "none"
    /\ runs = 0 /\ startDisk = disk /\ prior = [kind |-> "none"]

MaxArgs   == 3   \* most arguments of a call of Avg
MaxAvgVal == 3   \* the arguments of Avg are integers in -MaxAvgVal..MaxAvgVal

\* A float64 value as an exact fraction.  The arguments are small integers
\* and res is halved at most MaxArgs times, so every value computed here is
\* a dyadic fraction that float64 holds exactly.
RECURSIVE Reduced(_, _)
Reduced(num, den) ==
    IF den > 1 /\ num % 2 = 0 THEN Reduced(num \div 2, den \div 2)
    ELSE [num |-> num, den |-> den]

\* float64(n) of an integer n
FloatOf(n) == [num |-> n, den |-> 1]

\* (res + float64(n)) / 2.0
HalfSum(res, n) == Reduced(res.num + n * res.den, res.den * 2)

\* N(res): the value itself for float64, truncated towards zero for int.
ConvertN(n, r) ==
    IF n = "float64" THEN r
    ELSE [num |-> IF r.num >= 0 THEN r.num \div r.den ELSE -((-r.num) \div r.den),
          den |-> 1]

RECURSIVE SeqsUpTo(_, _)
\* The sequences over set of length at most n
SeqsUpTo(set, n) ==
    IF n = 0 THEN {<<>>}
    ELSE {<<>>} \cup {<<v>> \o rest : v \in set, rest \in SeqsUpTo(set, n - 1)}

InitAvg ==
    /\ GenIdle /\ WrapIdle
    /\ avgN \in {"int", "float64"}
    /\ avgX \in SeqsUpTo(-MaxAvgVal..MaxAvgVal, MaxArgs)
    /\ avgI = 0
    /\ avgRes = FloatOf(0)
    /\ avgPc = "loop"
    /\ avgOut = FloatOf(0)

\* for i, n := range x { ... }: one iteration.
AvgLoop ==
    /\ avgPc = "loop"
    /\ avgI < Len(avgX)
    /\ avgRes' = IF avgI = 0 THEN FloatOf(avgX[1])
                 ELSE HalfSum(avgRes, avgX[avgI + 1])
    /\ avgI' = avgI + 1
    /\ UNCHANGED <<avgN, avgX, avgPc, avgOut,
                   genVars, wrapVars>>

\* return N(res)
AvgReturn ==
    /\ avgPc = "loop"
    /\ avgI = Len(avgX)
    /\ avgOut' = ConvertN(avgN, avgRes)
    /\ avgPc' = "done"
    /\ UNCHANGED <<avgN, avgX, avgI, avgRes,
                   genVars, wrapVars>>

AvgNext == AvgLoop \/ AvgReturn

SpecAvg == InitAvg /\ [][AvgNext]_allVars

RECURSIVE Sum(_)
Sum(seq) == IF Len(seq) = 0 THEN 0 ELSE seq[1] + Sum(Tail(seq))

\* Two fractions are the same number.
SameNumber(a, b) == a.num * b.den = b.num * a.den

\* C8: for a non-empty argument list Avg returns the arithmetic mean
\* (x1 + ... + xn) / n converted to N (and so the same value for every order
\* of the arguments).
C8_AvgIsMean ==
    (avgPc = "done" /\ Len(avgX) > 0) =>
        SameNumber(avgOut, ConvertN(avgN, [num |-> Sum(avgX), den |-> Len(avgX)]))

---------------------------------------------------------------------------
(* user_functions.go: Wrap, on an integer type N of Width bits             *)

Width       == 8   \* N is int8 or uint8
MaxSmall    == 4   \* arguments are drawn from within MaxSmall of 0, of the
                   \* largest value and of the sign change

Modulus == 2 ^ Width

\* The value of type N that an integer result wraps to.
ToN(signed, z) ==
    LET m == z % Modulus IN
    IF signed /\ m >= Modulus \div 2 THEN m - Modulus ELSE m

\* Add and Sub, computed in N.
Add(signed, x, y) == ToN(signed, x + y)
Sub(signed, x, y) == ToN(signed, x - y)

ValuesOfN(signed) ==
    IF signed THEN -(Modulus \div 2)..(Modulus \div 2 - 1) ELSE 0..(Modulus - 1)

Abs(z) == IF z < 0 THEN -z ELSE z

\* The generated wrapper Mod[N Number](x, y N) N, which is
\* N(math.Mod(float64(x), float64(y))): the remainder of x / y with the sign
\* of x.  For y = 0 math.Mod is NaN, and the conversion of NaN to an integer
\* type is implementation-defined: any value of N.
Mod(signed, x, y) ==
    IF y = 0 THEN ValuesOfN(signed)
    ELSE {(IF x < 0 THEN -1 ELSE 1) * (Abs(x) % Abs(y))}

\* The arguments a call is made with.
WrapInputs(signed) ==
    {ToN(signed, p) : p \in (0..MaxSmall)
                           \cup ((Modulus - MaxSmall)..(Modulus - 1))
                           \cup {Modulus \div 2 - 1, Modulus \div 2}}

InitWrap ==
    /\ GenIdle /\ AvgIdle
    /\ wrapSigned \in BOOLEAN
    /\ wrapVal \in WrapInputs(wrapSigned)
    /\ wrapMin \in WrapInputs(wrapSigned)
    /\ wrapMax \in WrapInputs(wrapSigned)
    /\ wrapArgs = <<wrapVal, wrapMin, wrapMax>>
    /\ wrapRange = 0
    /\ wrapPc = "swap"
    /\ wrapOut = 0

\* if min > max { min, max = max, min }
WrapSwap ==
    /\ wrapPc = "swap"
    /\ IF wrapMin > wrapMax
       THEN wrapMin' = wrapMax /\ wrapMax' = wrapMin
       ELSE UNCHANGED <<wrapMin, wrapMax>>
    /\ wrapPc' = "range"
    /\ UNCHANGED <<wrapSigned, wrapVal, wrapRange, wrapArgs, wrapOut,
                   genVars, avgVars>>

\* rangeSize := Sub(max, min)
WrapRangeSize ==
    /\ wrapPc = "range"
    /\ wrapRange' = Sub(wrapSigned, wrapMax, wrapMin)
    /\ wrapPc' = "mod"
    /\ UNCHANGED <<wrapSigned, wrapVal, wrapMin, wrapMax, wrapArgs, wrapOut,
                   genVars, avgVars>>

\* val = Mod(Sub(val, min), rangeSize)
WrapMod ==
    /\ wrapPc = "mod"
    /\ wrapVal' \in Mod(wrapSigned, Sub(wrapSigned, wrapVal, wrapMin), wrapRange)
    /\ wrapPc' = "neg"
    /\ UNCHANGED <<wrapSigned, wrapMin, wrapMax, wrapRange, wrapArgs, wrapOut,
                   genVars, avgVars>>

\* if val < 0 { val = Add(val, rangeSize) }
WrapNegative ==
    /\ wrapPc = "neg"
    /\ wrapVal' = IF wrapVal < 0 THEN Add(wrapSigned, wrapVal, wrapRange)
                  ELSE wrapVal
    /\ wrapPc' = "ret"
    /\ UNCHANGED <<wrapSigned, wrapMin, wrapMax, wrapRange, wrapArgs, wrapOut,
                   genVars, avgVars>>

\* return Add(val, min)
WrapReturn ==
    /\ wrapPc = "ret"
    /\ wrapOut' = Add(wrapSigned, wrapVal, wrapMin)
    /\ wrapPc' = "done"
    /\ UNCHANGED <<wrapSigned, wrapVal, wrapMin, wrapMax, wrapRange, wrapArgs,
                   genVars, avgVars>>

WrapNext == WrapSwap \/ WrapRangeSize \/ WrapMod \/ WrapNegative \/ WrapReturn

SpecWrap == InitWrap /\ [][WrapNext]_allVars

\* C9: for min # max the result r of Wrap(val, min, max) lies in [lo, hi),
\* lo and hi being the smaller and the larger bound, and r is congruent to
\* val modulo hi - lo, for signed and for unsigned N.
C9_WrapInRangeCongruent ==
    LET lo == IF wrapArgs[2] < wrapArgs[3] THEN wrapArgs[2] ELSE wrapArgs[3]
        hi == IF wrapArgs[2] < wrapArgs[3] THEN wrapArgs[3] ELSE wrapArgs[2]
    IN
    (wrapPc = "done" /\ wrapArgs[2] # wrapArgs[3]) =>
        /\ lo <= wrapOut /\ wrapOut < hi
        /\ (wrapOut - wrapArgs[1]) % (hi - lo) = 0

=============================================================================
